---- MODULE Spec2Model ----
(***************************************************************************)
(* SyncChecker.consensusFilter (src/src/services/sync-checker.ts) as a     *)
(* state machine.  Every await of the method is a step boundary: the two   *)
(* redis reads, the lock write, each probe relay, the publication of the   *)
(* verified list and the consensus challenge relay.  Strings are modelled  *)
(* as sequences of tokens so that truthiness, JSON.stringify/JSON.parse    *)
(* and parseInt are computed rather than assumed.                          *)
(*                                                                         *)
(* V1Controller (src/unnamed/part_000) is a second state machine over the  *)
(* same redis: loadBalancerRelay, applicationRelay,                        *)
(* fetchRandomLoadBalancerApplication and fetchApp, with a step at every   *)
(* await.  The repositories it reads are not part of the source at hand;   *)
(* they hold fixed records and findById answers null for an application    *)
(* that is not among them.                                                 *)
(***************************************************************************)
EXTENDS Integers, Sequences, FiniteSets, TLC

\* ------------------------------------------------------------------ bounds
MaxNodes == 5
MaxHeight == 3
MaxAllowance == 1
MaxCalls == 2
MaxRequests == 2

\* ------------------------------------------------- JavaScript number model
\* parseInt yields NaN when no digit can be read; every comparison with NaN
\* is false and every sum with NaN is NaN.
NaN == -1

JsGt(a, b) == a # NaN /\ b # NaN /\ a > b

JsGe(a, b) == a # NaN /\ b # NaN /\ a >= b

JsAdd(a, b) == IF a = NaN \/ b = NaN THEN NaN ELSE a + b

HexDigits == <<"0", "1", "2", "3", "4", "5", "6", "7",
               "8", "9", "a", "b", "c", "d", "e", "f">>

IsHexDigit(ch) == \E v \in 1..16 : HexDigits[v] = ch

DigitValue(ch) == (CHOOSE v \in 1..16 : HexDigits[v] = ch) - 1

\* ToString(undefined), what parseInt sees when payload.result is missing
UndefinedText == <<"u", "n", "d", "e", "f", "i", "n", "e", "d">>

RECURSIVE HexPrefixValue(_, _, _)
\* value of the longest prefix of hex digits of s from position i on,
\* acc is the value read so far, NaN when no digit has been read
HexPrefixValue(s, i, acc) ==
  IF i > Len(s) \/ ~IsHexDigit(s[i]) THEN acc
  ELSE HexPrefixValue(s, i + 1,
                      (IF acc = NaN THEN 0 ELSE acc * 16) + DigitValue(s[i]))

\* parseInt(text, 16): an optional 0x prefix, then the leading hex digits
ParseInt16(text) ==
  LET body == IF Len(text) >= 2 /\ text[1] = "0" /\ text[2] \in {"x", "X"}
              THEN SubSeq(text, 3, Len(text)) ELSE text
  IN HexPrefixValue(body, 1, NaN)

\* ------------------------------------------------------------ session nodes
PublicKeys == <<"a1", "b2", "c3", "d4", "e5", "f6", "g7", "h8">>

ServiceURLs == <<"https://n1", "https://n2", "https://n3", "https://n4",
                 "https://n5", "https://n6", "https://n7", "https://n8">>

Node(i) == [publicKey |-> PublicKeys[i], serviceURL |-> ServiceURLs[i]]

\* JavaScript string order on the public keys in use (they sort as listed)
PkRank(pk) == CHOOSE i \in 1..Len(PublicKeys) : PublicKeys[i] = pk

Session(k) == [i \in 1..k |-> Node(i)]

Reverse(s) == [i \in 1..Len(s) |-> s[Len(s) + 1 - i]]

RECURSIVE InsertSorted(_, _)
\* stable insertion of x into the sorted sequence s of [rank, item] records:
\* x goes after every element whose rank is not greater than its own
InsertSorted(s, x) ==
  IF s = <<>> THEN <<x>>
  ELSE IF s[Len(s)].rank > x.rank
       THEN Append(InsertSorted(SubSeq(s, 1, Len(s) - 1), x), s[Len(s)])
       ELSE Append(s, x)

RECURSIVE StableSort(_)
\* Array.prototype.sort with a consistent comparator on arrays this short:
\* ascending by rank, equal ranks keep their order
StableSort(s) ==
  IF s = <<>> THEN <<>>
  ELSE InsertSorted(StableSort(SubSeq(s, 1, Len(s) - 1)), s[Len(s)])

Items(s) == [i \in 1..Len(s) |-> s[i].item]

\* the nodes left in the order they came in
SortByPublicKeySkipped(nodes) == nodes

\* nodes.sort((a,b) => a.publicKey > b.publicKey ? 1 : ...), in place
SortByPublicKey(nodes) ==
  Items(StableSort([i \in 1..Len(nodes) |->
                     [rank |-> PkRank(nodes[i].publicKey), item |-> nodes[i]]]))

Blockchain == "0021"

\* sha256 of JSON.stringify(sorted nodes, replacer dropping publicKey): the
\* digest is taken to be collision free, so it is represented by the text it
\* hashes, the remaining fields of the nodes in public-key order
Fingerprint(nodes) ==
  LET sorted == SortByPublicKey(nodes)
  IN [i \in 1..Len(sorted) |-> sorted[i].serviceURL]

\* a key made of the chain alone
SyncedNodesKeyOfChain(blockchain, nodes) == <<blockchain, "-">>

SyncedNodesKey(blockchain, nodes) == <<blockchain, "-">> \o Fingerprint(nodes)

LockKey(key) == <<"lock-">> \o key

\* ------------------------------------------------------------------- redis
\* GET of an absent key answers null; null and "" are the falsy strings
Null == <<>>

Truthy(v) == v # Null

JsonStringify(list) == <<"[">> \o list \o <<"]">>

JsonParse(text) == SubSeq(text, 2, Len(text) - 1)

\* ---------------------------------------------------------------- relaying
\* the configuration the gateway was started with; the checker only ever
\* passes copies with some parameters replaced
PocketConfiguration ==
  [consensusNodeCount |-> 0, requestTimeOut |-> 0, acceptDisputedResponses |-> TRUE]

UpdateConfigurationConsensus(pocketConfiguration) ==
  [pocketConfiguration EXCEPT !.consensusNodeCount = 5,
                              !.requestTimeOut = 2000,
                              !.acceptDisputedResponses = FALSE]

UpdateConfigurationTimeout(pocketConfiguration) ==
  [pocketConfiguration EXCEPT !.requestTimeOut = 5000]

\* the payload of a RelayResponse: text that JSON.parse rejects, or a JSON
\* object with or without a result string
HexText(h) == <<"0", "x", HexDigits[h + 1]>>

Payloads ==
  {[wellFormed |-> FALSE, hasResult |-> FALSE, result |-> <<>>],
   [wellFormed |-> TRUE, hasResult |-> FALSE, result |-> <<>>]}
  \cup {[wellFormed |-> TRUE, hasResult |-> TRUE, result |-> HexText(h)] :
          h \in 0..MaxHeight}

\* what pocket.sendRelay resolves to for a probe (a timeout is a RelayError)
RelayOutcomes ==
  {[type |-> "RelayError", message |-> "relay failed",
    payload |-> [wellFormed |-> FALSE, hasResult |-> FALSE, result |-> <<>>]]}
  \cup {[type |-> "RelayResponse", message |-> "", payload |-> p] : p \in Payloads}

\* parseInt(payload.result, 16) of a parsed payload
BlockHeightOf(payload) ==
  ParseInt16(IF payload.hasResult THEN payload.result ELSE UndefinedText)

ProbeRelay(node) ==
  [data |-> "syncCheck", blockchain |-> Blockchain,
   configuration |-> UpdateConfigurationTimeout(PocketConfiguration),
   node |-> node.publicKey, consensusEnabled |-> FALSE, requestID |-> "synccheck"]

ChallengeRelay ==
  [data |-> "syncCheck", blockchain |-> Blockchain,
   configuration |-> UpdateConfigurationConsensus(PocketConfiguration),
   node |-> "", consensusEnabled |-> TRUE, requestID |-> "syncheck"]

\* a recorder call that reports the failed probe as delivered
FailureMetricDelivered(publicKey, error) ==
  [requestID |-> "synccheck", blockchain |-> Blockchain, serviceNode |-> publicKey,
   result |-> 200, delivered |-> TRUE, fallback |-> FALSE,
   method |-> "synccheck", error |-> error]

\* the record handed to metricsRecorder.recordMetric (timing and byte count
\* are left out)
FailureMetric(publicKey, error) ==
  [requestID |-> "synccheck", blockchain |-> Blockchain, serviceNode |-> publicKey,
   result |-> 500, delivered |-> FALSE, fallback |-> FALSE,
   method |-> "synccheck", error |-> error]

\* ------------------------------------------------------- sort by blockHeight
\* the comparator of nodeSyncLogs.sort: positive when a sorts after b
CompareHeight(a, b) ==
  IF JsGt(a.blockHeight, b.blockHeight) THEN 1
  ELSE IF JsGt(b.blockHeight, a.blockHeight) THEN -1 ELSE 0

RECURSIVE InsertLog(_, _)
\* one pass of the inner loop of an insertion sort: x moves left past every
\* element the comparator puts after it
InsertLog(s, x) ==
  IF s = <<>> THEN <<x>>
  ELSE IF CompareHeight(s[Len(s)], x) > 0
       THEN Append(InsertLog(SubSeq(s, 1, Len(s) - 1), x), s[Len(s)])
       ELSE Append(s, x)

RECURSIVE InsertionSort(_)
\* Array.prototype.sort of the older runtimes on arrays of at most ten elements
InsertionSort(a) ==
  IF a = <<>> THEN <<>>
  ELSE InsertLog(InsertionSort(SubSeq(a, 1, Len(a) - 1)), a[Len(a)])

RECURSIVE RunEnd(_, _, _)
\* length of the initial run of a: idx is the next position to look at
RunEnd(a, idx, descending) ==
  IF idx > Len(a) THEN Len(a)
  ELSE LET order == CompareHeight(a[idx], a[idx - 1]) IN
       IF (descending /\ order >= 0) \/ (~descending /\ order < 0)
       THEN idx - 1
       ELSE RunEnd(a, idx + 1, descending)

RECURSIVE SearchInsertionPoint(_, _, _, _)
\* binary search for the number of elements of s that stay left of pivot
SearchInsertionPoint(s, pivot, left, right) ==
  IF left >= right THEN left
  ELSE LET mid == left + ((right - left) \div 2) IN
       IF CompareHeight(pivot, s[mid + 1]) < 0
       THEN SearchInsertionPoint(s, pivot, left, mid)
       ELSE SearchInsertionPoint(s, pivot, mid + 1, right)

RECURSIVE BinaryInsertionSort(_, _)
\* the first `start` elements of a are in order; insert the others one by one
BinaryInsertionSort(a, start) ==
  IF start >= Len(a) THEN a
  ELSE LET sorted == SubSeq(a, 1, start)
           pivot == a[start + 1]
           left == SearchInsertionPoint(sorted, pivot, 0, start)
       IN BinaryInsertionSort(SubSeq(sorted, 1, left) \o <<pivot>>
                                \o SubSeq(sorted, left + 1, start)
                                \o SubSeq(a, start + 2, Len(a)),
                              start + 1)

\* Array.prototype.sort of the newer runtimes on arrays shorter than a minimal
\* run: find the initial run, reverse it if it descends, insert the rest
TimSort(a) ==
  IF Len(a) < 2 THEN a
  ELSE LET descending == CompareHeight(a[2], a[1]) < 0
           runLength == RunEnd(a, 3, descending)
           run == SubSeq(a, 1, runLength)
           made == (IF descending THEN Reverse(run) ELSE run)
                     \o SubSeq(a, runLength + 1, Len(a))
       IN BinaryInsertionSort(made, runLength)

\* nodeSyncLogs.sort(...): ascending by blockHeight, equal heights keeping
\* their order.  A NaN height makes the comparator inconsistent, and then the
\* order depends on the runtime's algorithm: both are outcomes.
SortByBlockHeight(logs) == {InsertionSort(logs), TimSort(logs)}

\* an admission that wants a node strictly ahead of the reference height
InSyncStrictlyAhead(sorted, allowance, currentBlockHeight) ==
  SelectSeq(sorted, LAMBDA l : JsGt(JsAdd(l.blockHeight, allowance), currentBlockHeight))

\* the admission loop over the sorted logs: the in-sync logs
InSync(sorted, allowance, currentBlockHeight) ==
  SelectSeq(sorted, LAMBDA l : JsGe(JsAdd(l.blockHeight, allowance), currentBlockHeight))

Behind(sorted, allowance, currentBlockHeight) ==
  SelectSeq(sorted, LAMBDA l : ~JsGe(JsAdd(l.blockHeight, allowance), currentBlockHeight))

\* --------------------------------------------------- records and their JSON
\* a JavaScript value the controller handles: null, or an object with the
\* fields id, publicKey and applicationIDs, any of which may be missing ("")
Object(id, publicKey, hasApplicationIDs, applicationIDs) ==
  [isNull |-> FALSE, id |-> id, publicKey |-> publicKey,
   hasApplicationIDs |-> hasApplicationIDs, applicationIDs |-> applicationIDs]

NullObject ==
  [isNull |-> TRUE, id |-> "", publicKey |-> "",
   hasApplicationIDs |-> FALSE, applicationIDs |-> <<>>]

EmptyObject == Object("", "", FALSE, <<>>)

\* JSON.stringify of such a value, as its sequence of tokens
JsonStringifyObject(o) ==
  IF o.isNull THEN <<"null">>
  ELSE <<"{">>
       \o (IF o.id # "" THEN <<"id:", o.id>> ELSE <<>>)
       \o (IF o.publicKey # "" THEN <<"publicKey:", o.publicKey>> ELSE <<>>)
       \o (IF o.hasApplicationIDs
           THEN <<"applicationIDs:">> \o JsonStringify(o.applicationIDs)
           ELSE <<>>)
       \o <<"}">>

\* the token after the field name, "" when the text has no such field
FieldOf(text, name) ==
  IF \E i \in 1..Len(text) - 1 : text[i] = name
  THEN text[(CHOOSE i \in 1..Len(text) - 1 : text[i] = name) + 1]
  ELSE ""

\* the array that follows the field name
ArrayOf(text, name) ==
  LET open == (CHOOSE i \in 1..Len(text) - 1 : text[i] = name) + 1
      close == CHOOSE j \in open + 1..Len(text) :
                 /\ text[j] = "]"
                 /\ \A k \in open + 1..j - 1 : text[k] # "]"
  IN JsonParse(SubSeq(text, open, close))

\* JSON.parse of a text written by JsonStringifyObject
JsonParseObject(text) ==
  IF text = <<"null">> THEN NullObject
  ELSE LET hasApplicationIDs ==
             \E i \in 1..Len(text) - 1 : text[i] = "applicationIDs:"
       IN Object(FieldOf(text, "id:"), FieldOf(text, "publicKey:"),
                 hasApplicationIDs,
                 IF hasApplicationIDs THEN ArrayOf(text, "applicationIDs:")
                 ELSE <<>>)

\* new Applications(data): the model constructor copies the fields of data
\* into a fresh object, so null gives an object without fields
NewApplications(data) == IF data.isNull THEN EmptyObject ELSE data

\* ------------------------------------------------------------- repositories
\* the application records the applications repository holds
ApplicationRecords ==
  {Object("appLive1", "pk1", FALSE, <<>>), Object("appLive2", "pk2", FALSE, <<>>)}

\* the load balancers the repository holds: one that names an application
\* the repository lost between two it has, and one that names only lost ones
LoadBalancerRecords ==
  {Object("lbMixed", "", TRUE, <<"appLive1", "appGone", "appLive2">>),
   Object("lbGone", "", TRUE, <<"appGone">>)}

\* applicationsRepository.findById: the record, or null when there is none
ApplicationsFindById(id) ==
  IF \E a \in ApplicationRecords : a.id = id
  THEN CHOOSE a \in ApplicationRecords : a.id = id
  ELSE NullObject

\* loadBalancersRepository.findById, for the ids the repository holds
LoadBalancersFindById(id) == CHOOSE l \in LoadBalancerRecords : l.id = id

LoadBalancerIDs == {l.id : l \in LoadBalancerRecords}

\* the ids a client puts in the path of POST /v1/{id}: an application, a
\* lost application, a load balancer
ApplicationPathIDs == {"appLive1", "appGone", "lbMixed"}

\* the raw body of the request handler r is serving, one body per handler
RawData(r) == <<"raw", r>>

\* the redis keys of the controller
RecordKey(id) == <<id>>

ApplicationIDsKey(id) == <<"applicationIDs-", id>>

\* -------------------------------------------------------------------- state
VARIABLES
  redis,           \* the cache backend: key -> entry, absent keys left out
  callers,         \* the request handlers of this run
  sessions,        \* the session node arrays the dispatcher hands out
  syncAllowance,   \* the blockchain's syncAllowance
  pc,              \* position of each consensusFilter call
  nodes,           \* its nodes argument, after the in-place sort
  relays,          \* the relays it has sent through pocket.sendRelay
  nodeSyncLogs,    \* its nodeSyncLogs
  metrics,         \* the records it has handed to the metrics recorder
  syncedNodes,     \* its syncedNodes
  syncedNodesList, \* its syncedNodesList
  result,          \* the array it returned
  requests         \* the relay requests the V1Controller is serving

vars == <<redis, callers, sessions, syncAllowance, pc, nodes, relays,
          nodeSyncLogs, metrics, syncedNodes, syncedNodesList, result,
          requests>>

Calls == 1..MaxCalls

\* what redis.set(key, value, 'EX', seconds) stores
Entry(value, seconds) == [value |-> value, EX |-> seconds]

Get(key) == IF key \in DOMAIN redis THEN redis[key].value ELSE Null

Key(c) == SyncedNodesKey(Blockchain, nodes[c])

Finished(c) == pc[c] \in {"idle", "returned", "thrown"}

Requests == 1..MaxRequests

\* a request handler of the controller that is serving nothing
IdleRequest ==
  [pc |-> "idle", path |-> "", id |-> "", rawData |-> <<>>,
   loadBalancer |-> NullObject, verifiedIDs |-> <<>>, next |-> 0,
   fetchId |-> "", site |-> "", hit |-> FALSE, fetchOps |-> <<>>,
   application |-> NullObject,
   fetched |-> [id |-> "", hit |-> FALSE, ops |-> <<>>,
                application |-> NullObject],
   sent |-> <<>>, error |-> ""]

InitCalls ==
  /\ redis = <<>>
  /\ requests = [r \in Requests |-> IdleRequest]
  /\ pc = [c \in Calls |-> "idle"]
  /\ nodes = [c \in Calls |-> <<>>]
  /\ relays = [c \in Calls |-> <<>>]
  /\ nodeSyncLogs = [c \in Calls |-> <<>>]
  /\ metrics = [c \in Calls |-> <<>>]
  /\ syncedNodes = [c \in Calls |-> <<>>]
  /\ syncedNodesList = [c \in Calls |-> <<>>]
  /\ result = [c \in Calls |-> <<>>]

\* one request handler at a time, any session size and allowance
Init ==
  /\ InitCalls
  /\ callers = {1}
  /\ \E k \in 2..MaxNodes : sessions = {Session(k)}
  /\ syncAllowance \in 0..MaxAllowance

\* a burst of concurrent requests on one session of three nodes
InitBurst ==
  /\ InitCalls
  /\ callers = Calls
  /\ sessions = {Session(3)}
  /\ syncAllowance = 1

\* two request handlers on one session of three nodes, one after the other
InitSerial ==
  /\ InitCalls
  /\ callers = {1, 2}
  /\ sessions = {Session(3)}
  /\ syncAllowance = 1

\* one request handler across a session rollover: the old session of three
\* nodes and the next one, which keeps two of them
InitRollover ==
  /\ InitCalls
  /\ callers = {1}
  /\ sessions = {Session(3), Tail(Session(4))}
  /\ syncAllowance \in 0..MaxAllowance

\* the controller serving its two routes, no sync check running
InitController ==
  /\ InitCalls
  /\ callers = {}
  /\ sessions = {}
  /\ syncAllowance = 0

\* ------------------------------------------------------------------ actions
Return(c, value) ==
  /\ pc' = [pc EXCEPT ![c] = "returned"]
  /\ result' = [result EXCEPT ![c] = value]

\* lines 18-24: the call starts, sorts its argument in place and derives the key
Start(c) ==
  /\ c \in callers
  /\ Finished(c)
  /\ \E s \in sessions : \E input \in {s, Reverse(s)} :
       nodes' = [nodes EXCEPT ![c] = SortByPublicKey(input)]
  /\ pc' = [pc EXCEPT ![c] = "getCache"]
  /\ relays' = [relays EXCEPT ![c] = <<>>]
  /\ nodeSyncLogs' = [nodeSyncLogs EXCEPT ![c] = <<>>]
  /\ metrics' = [metrics EXCEPT ![c] = <<>>]
  /\ syncedNodes' = [syncedNodes EXCEPT ![c] = <<>>]
  /\ syncedNodesList' = [syncedNodesList EXCEPT ![c] = <<>>]
  /\ result' = [result EXCEPT ![c] = <<>>]
  /\ UNCHANGED <<redis, requests, callers, sessions, syncAllowance>>

\* a cache hit that hands back the whole session instead of filtering it
GetCacheUnfiltered(c) ==
  /\ pc[c] = "getCache"
  /\ IF Truthy(Get(Key(c)))
     THEN Return(c, nodes[c])
     ELSE /\ pc' = [pc EXCEPT ![c] = "getLock"]
          /\ UNCHANGED result
  /\ UNCHANGED <<redis, requests, callers, sessions, syncAllowance, nodes, relays,
                 nodeSyncLogs, metrics, syncedNodes, syncedNodesList>>

\* lines 25-36: read the verified list; on a hit filter the nodes by it
GetCache(c) ==
  /\ pc[c] = "getCache"
  /\ LET syncedNodesCached == Get(Key(c)) IN
       IF Truthy(syncedNodesCached)
       THEN LET list == JsonParse(syncedNodesCached)
                kept == SelectSeq(nodes[c],
                                  LAMBDA n : \E j \in 1..Len(list) : list[j] = n.publicKey)
            IN /\ syncedNodesList' = [syncedNodesList EXCEPT ![c] = list]
               /\ syncedNodes' = [syncedNodes EXCEPT ![c] = kept]
               /\ Return(c, kept)
       ELSE /\ pc' = [pc EXCEPT ![c] = "getLock"]
            /\ UNCHANGED <<syncedNodes, syncedNodesList, result>>
  /\ UNCHANGED <<redis, requests, callers, sessions, syncAllowance, nodes, relays,
                 nodeSyncLogs, metrics>>

\* a lock check that goes on to probe whatever it reads
GetLockIgnored(c) ==
  /\ pc[c] = "getLock"
  /\ pc' = [pc EXCEPT ![c] = "setLock"]
  /\ UNCHANGED <<redis, requests, callers, sessions, syncAllowance, nodes, relays,
                 nodeSyncLogs, metrics, syncedNodes, syncedNodesList, result>>

\* lines 40-43: read the lock; if it is set return the full node set
GetLock(c) ==
  /\ pc[c] = "getLock"
  /\ IF Truthy(Get(LockKey(Key(c))))
     THEN Return(c, nodes[c])
     ELSE /\ pc' = [pc EXCEPT ![c] = "setLock"]
          /\ UNCHANGED result
  /\ UNCHANGED <<redis, requests, callers, sessions, syncAllowance, nodes, relays,
                 nodeSyncLogs, metrics, syncedNodes, syncedNodesList>>

\* a lock stored without a lifetime
SetLockForever(c) ==
  /\ pc[c] = "setLock"
  /\ redis' = (LockKey(Key(c)) :> Entry(<<"true">>, 0)) @@ redis
  /\ pc' = [pc EXCEPT ![c] = "probe"]
  /\ UNCHANGED <<requests, callers, sessions, syncAllowance, nodes, relays, nodeSyncLogs,
                 metrics, syncedNodes, syncedNodesList, result>>

\* line 47: redis.set('lock-' + key, 'true', 'EX', 60)
SetLock(c) ==
  /\ pc[c] = "setLock"
  /\ redis' = (LockKey(Key(c)) :> Entry(<<"true">>, 60)) @@ redis
  /\ pc' = [pc EXCEPT ![c] = "probe"]
  /\ UNCHANGED <<requests, callers, sessions, syncAllowance, nodes, relays, nodeSyncLogs,
                 metrics, syncedNodes, syncedNodesList, result>>

\* a probe loop that records nothing for a probe that failed
ProbeUnrecorded(c) ==
  /\ pc[c] = "probe"
  /\ Len(relays[c]) < Len(nodes[c])
  /\ LET node == nodes[c][Len(relays[c]) + 1] IN
     /\ relays' = [relays EXCEPT ![c] = Append(@, ProbeRelay(node))]
     /\ \E relayResponse \in RelayOutcomes :
          IF relayResponse.type = "RelayResponse"
          THEN IF relayResponse.payload.wellFormed
               THEN /\ nodeSyncLogs' = [nodeSyncLogs EXCEPT ![c] =
                         Append(@, [node |-> node, blockchain |-> Blockchain,
                                    blockHeight |-> BlockHeightOf(relayResponse.payload)])]
                    /\ UNCHANGED <<pc, metrics>>
               ELSE /\ pc' = [pc EXCEPT ![c] = "thrown"]
                    /\ UNCHANGED <<nodeSyncLogs, metrics>>
          ELSE UNCHANGED <<pc, nodeSyncLogs, metrics>>
  /\ UNCHANGED <<redis, requests, callers, sessions, syncAllowance, nodes, syncedNodes,
                 syncedNodesList, result>>

\* lines 53-101, one turn of the loop: relay the sync check to the next node
\* and handle what comes back
Probe(c) ==
  /\ pc[c] = "probe"
  /\ Len(relays[c]) < Len(nodes[c])
  /\ LET node == nodes[c][Len(relays[c]) + 1] IN
     /\ relays' = [relays EXCEPT ![c] = Append(@, ProbeRelay(node))]
     /\ \E relayResponse \in RelayOutcomes :
          IF relayResponse.type = "RelayResponse"
          THEN IF relayResponse.payload.wellFormed
               THEN /\ nodeSyncLogs' = [nodeSyncLogs EXCEPT ![c] =
                         Append(@, [node |-> node, blockchain |-> Blockchain,
                                    blockHeight |-> BlockHeightOf(relayResponse.payload)])]
                    /\ UNCHANGED <<pc, metrics>>
               ELSE \* JSON.parse throws and nothing catches it
                    /\ pc' = [pc EXCEPT ![c] = "thrown"]
                    /\ UNCHANGED <<nodeSyncLogs, metrics>>
          ELSE /\ metrics' = [metrics EXCEPT ![c] =
                    Append(@, FailureMetric(node.publicKey, relayResponse.message))]
               /\ UNCHANGED <<pc, nodeSyncLogs>>
  /\ UNCHANGED <<redis, requests, callers, sessions, syncAllowance, nodes, syncedNodes,
                 syncedNodesList, result>>

\* an evaluation that deletes the lock when the pass fails open
EvaluateReleasing(c) ==
  /\ pc[c] = "probe"
  /\ Len(relays[c]) = Len(nodes[c])
  /\ IF Len(nodeSyncLogs[c]) <= 2
     THEN /\ Return(c, nodes[c])
          /\ UNCHANGED <<nodeSyncLogs, metrics, syncedNodes, syncedNodesList>>
     ELSE \E sorted \in SortByBlockHeight(nodeSyncLogs[c]) :
       /\ nodeSyncLogs' = [nodeSyncLogs EXCEPT ![c] = sorted]
       /\ IF sorted[1].blockHeight = 0 \/ sorted[1].blockHeight = NaN
          THEN /\ Return(c, nodes[c])
               /\ UNCHANGED <<metrics, syncedNodes, syncedNodesList>>
          ELSE IF JsGt(sorted[1].blockHeight, JsAdd(sorted[2].blockHeight, 1))
          THEN /\ Return(c, nodes[c])
               /\ UNCHANGED <<metrics, syncedNodes, syncedNodesList>>
          ELSE LET currentBlockHeight == sorted[1].blockHeight
                   in == InSync(sorted, syncAllowance, currentBlockHeight)
                   out == Behind(sorted, syncAllowance, currentBlockHeight)
               IN /\ syncedNodes' = [syncedNodes EXCEPT ![c] =
                        [i \in 1..Len(in) |-> in[i].node]]
                  /\ syncedNodesList' = [syncedNodesList EXCEPT ![c] =
                        [i \in 1..Len(in) |-> in[i].node.publicKey]]
                  /\ metrics' = [metrics EXCEPT ![c] =
                        @ \o [i \in 1..Len(out) |->
                                FailureMetric(out[i].node.publicKey, "OUT OF SYNC")]]
                  /\ pc' = [pc EXCEPT ![c] = "publish"]
                  /\ UNCHANGED result
  /\ redis' = IF pc'[c] = "returned"
              THEN [k \in DOMAIN redis \ {LockKey(Key(c))} |-> redis[k]]
              ELSE redis
  /\ UNCHANGED <<requests, callers, sessions, syncAllowance, nodes, relays>>

\* lines 103-159: the loop is over; validate, sort, guard and admit
Evaluate(c) ==
  /\ pc[c] = "probe"
  /\ Len(relays[c]) = Len(nodes[c])
  /\ IF Len(nodeSyncLogs[c]) <= 2
     THEN /\ Return(c, nodes[c])
          /\ UNCHANGED <<nodeSyncLogs, metrics, syncedNodes, syncedNodesList>>
     ELSE \E sorted \in SortByBlockHeight(nodeSyncLogs[c]) :
       /\ nodeSyncLogs' = [nodeSyncLogs EXCEPT ![c] = sorted]
       /\ IF sorted[1].blockHeight = 0 \/ sorted[1].blockHeight = NaN
          THEN /\ Return(c, nodes[c])
               /\ UNCHANGED <<metrics, syncedNodes, syncedNodesList>>
          ELSE IF JsGt(sorted[1].blockHeight, JsAdd(sorted[2].blockHeight, 1))
          THEN /\ Return(c, nodes[c])
               /\ UNCHANGED <<metrics, syncedNodes, syncedNodesList>>
          ELSE LET currentBlockHeight == sorted[1].blockHeight
                   in == InSync(sorted, syncAllowance, currentBlockHeight)
                   out == Behind(sorted, syncAllowance, currentBlockHeight)
               IN /\ syncedNodes' = [syncedNodes EXCEPT ![c] =
                        [i \in 1..Len(in) |-> in[i].node]]
                  /\ syncedNodesList' = [syncedNodesList EXCEPT ![c] =
                        [i \in 1..Len(in) |-> in[i].node.publicKey]]
                  /\ metrics' = [metrics EXCEPT ![c] =
                        @ \o [i \in 1..Len(out) |->
                                FailureMetric(out[i].node.publicKey, "OUT OF SYNC")]]
                  /\ pc' = [pc EXCEPT ![c] = "publish"]
                  /\ UNCHANGED result
  /\ UNCHANGED <<redis, requests, callers, sessions, syncAllowance, nodes, relays>>

\* lines 162-172: write the verified list, then decide on the challenge
Publish(c) ==
  /\ pc[c] = "publish"
  /\ redis' = (Key(c) :> Entry(JsonStringify(syncedNodesList[c]), 300)) @@ redis
  /\ IF Len(syncedNodes[c]) < 5
     THEN /\ pc' = [pc EXCEPT ![c] = "challenge"]
          /\ UNCHANGED result
     ELSE Return(c, syncedNodes[c])
  /\ UNCHANGED <<requests, callers, sessions, syncAllowance, nodes, relays, nodeSyncLogs,
                 metrics, syncedNodes, syncedNodesList>>

\* lines 173-184: the consensus relay goes out; the call awaits its response
Challenge(c) ==
  /\ pc[c] = "challenge"
  /\ relays' = [relays EXCEPT ![c] = Append(@, ChallengeRelay)]
  /\ pc' = [pc EXCEPT ![c] = "awaitChallenge"]
  /\ UNCHANGED <<redis, requests, callers, sessions, syncAllowance, nodes, nodeSyncLogs,
                 metrics, syncedNodes, syncedNodesList, result>>

\* the consensus relay resolves, whatever it resolves to: the await of
\* line 173 is over
ChallengeResponse(c) ==
  /\ pc[c] = "awaitChallenge"
  /\ pc' = [pc EXCEPT ![c] = "challenged"]
  /\ UNCHANGED <<redis, requests, callers, sessions, syncAllowance, nodes, relays,
                 nodeSyncLogs, metrics, syncedNodes, syncedNodesList, result>>

\* lines 185-188: log the consensus response and return the in-sync nodes
ReturnSynced(c) ==
  /\ pc[c] = "challenged"
  /\ Return(c, syncedNodes[c])
  /\ UNCHANGED <<redis, requests, callers, sessions, syncAllowance, nodes, relays,
                 nodeSyncLogs, metrics, syncedNodes, syncedNodesList>>

\* the EX 60 of line 47 or the EX 300 of line 165 runs out.  A pass lasts at
\* most one 5 s probe per session node and one 2 s challenge, well under
\* either lifetime, so keys run out between passes.
Expire(key) ==
  /\ key \in DOMAIN redis
  /\ redis[key].EX > 0
  /\ \A c \in Calls : Finished(c)
  /\ redis' = [k \in DOMAIN redis \ {key} |-> redis[k]]
  /\ UNCHANGED <<requests, callers, sessions, syncAllowance, pc, nodes, relays,
                 nodeSyncLogs, metrics, syncedNodes, syncedNodesList, result>>

\* --------------------------------------------------- V1Controller actions
syncVars == <<callers, sessions, syncAllowance, pc, nodes, relays,
              nodeSyncLogs, metrics, syncedNodes, syncedNodesList, result>>

Resting(r) == requests[r].pc \in {"idle", "done", "failed"}

Op(op, id, value, seconds) ==
  [op |-> op, id |-> id, value |-> value, EX |-> seconds]

\* an exception leaves the handler
Fail(rq, error) == [rq EXCEPT !.pc = "failed", !.error = error]

\* the call this.fetchApp(id, filter), made from the given place
EnterFetchApp(rq, id, site) ==
  [rq EXCEPT !.pc = "faGet", !.fetchId = id, !.site = site, !.hit = FALSE,
             !.fetchOps = <<>>]

\* a verification that keeps every id it asked for
ResumeUnverified(rq, application) ==
  LET back == [rq EXCEPT !.application = application,
                         !.fetched = [id |-> rq.fetchId, hit |-> rq.hit,
                                      ops |-> rq.fetchOps,
                                      application |-> application]]
  IN IF rq.site = "verify"
     THEN
          LET verifiedIDs == Append(rq.verifiedIDs, rq.fetchId)
              applicationIDs == rq.loadBalancer.applicationIDs
              next == rq.next + 1
              kept == [back EXCEPT !.verifiedIDs = verifiedIDs, !.next = next]
          IN IF next <= Len(applicationIDs)
             THEN EnterFetchApp(kept, applicationIDs[next], "verify")
             ELSE [kept EXCEPT !.pc = "fraSet"]
     ELSE
          [back EXCEPT !.pc = "send"]

\* fetchApp hands its application back to the place that called it
Resume(rq, application) ==
  LET back == [rq EXCEPT !.application = application,
                         !.fetched = [id |-> rq.fetchId, hit |-> rq.hit,
                                      ops |-> rq.fetchOps,
                                      application |-> application]]
  IN IF rq.site = "verify"
     THEN \* lines 77-80: keep the id of an application that has one
          LET verifiedIDs == IF application.id # ""
                             THEN Append(rq.verifiedIDs, application.id)
                             ELSE rq.verifiedIDs
              applicationIDs == rq.loadBalancer.applicationIDs
              next == rq.next + 1
              kept == [back EXCEPT !.verifiedIDs = verifiedIDs, !.next = next]
          IN IF next <= Len(applicationIDs)
             THEN EnterFetchApp(kept, applicationIDs[next], "verify")
             ELSE [kept EXCEPT !.pc = "fraSet"]
     ELSE \* lines 56 and 68: next comes pocketRelayer.sendRelay
          [back EXCEPT !.pc = "send"]

\* POST /v1/lb/{id}, lines 42-44
StartLoadBalancerRelay(r) ==
  /\ Resting(r)
  /\ \E id \in LoadBalancerIDs :
       requests' = [requests EXCEPT ![r] =
         [IdleRequest EXCEPT !.pc = "lbGet", !.path = "lb", !.id = id,
                             !.rawData = RawData(r)]]
  /\ UNCHANGED <<redis, syncVars>>

\* POST /v1/{id}, lines 65-67
StartApplicationRelay(r) ==
  /\ Resting(r)
  /\ \E id \in ApplicationPathIDs :
       requests' = [requests EXCEPT ![r] =
         EnterFetchApp([IdleRequest EXCEPT !.path = "app", !.id = id,
                                           !.rawData = RawData(r)],
                       id, "applicationRelay")]
  /\ UNCHANGED <<redis, syncVars>>

\* line 55: loadBalancer.id and loadBalancer.applicationIDs are read, which
\* throws a TypeError when loadBalancer is null
WithLoadBalancer(rq, loadBalancer) ==
  IF loadBalancer.isNull THEN Fail(rq, "TypeError")
  ELSE [rq EXCEPT !.loadBalancer = loadBalancer, !.pc = "fraGet"]

\* lines 44-46 and 50-52: read the load balancer from the cache
GetLoadBalancer(r) ==
  LET rq == requests[r]
      cachedLoadBalancer == Get(RecordKey(rq.id))
  IN /\ rq.pc = "lbGet"
     /\ requests' = [requests EXCEPT ![r] =
          IF ~Truthy(cachedLoadBalancer)
          THEN [rq EXCEPT !.pc = "lbFind"]
          ELSE WithLoadBalancer(rq, JsonParseObject(cachedLoadBalancer))]
     /\ UNCHANGED <<redis, syncVars>>

\* line 47: loadBalancersRepository.findById
FindLoadBalancer(r) ==
  LET rq == requests[r]
  IN /\ rq.pc = "lbFind"
     /\ requests' = [requests EXCEPT ![r] =
          [rq EXCEPT !.loadBalancer = LoadBalancersFindById(rq.id),
                     !.pc = "lbSet"]]
     /\ UNCHANGED <<redis, syncVars>>

\* line 48: cache the load balancer under its bare id
SetLoadBalancer(r) ==
  LET rq == requests[r]
  IN /\ rq.pc = "lbSet"
     /\ redis' = (RecordKey(rq.id) :>
                    Entry(JsonStringifyObject(rq.loadBalancer), 60)) @@ redis
     /\ requests' = [requests EXCEPT ![r] =
                       WithLoadBalancer(rq, rq.loadBalancer)]
     /\ UNCHANGED syncVars

\* a choice among the applicationIDs of the load balancer, verified or not
ChooseApplicationUnverified(r, rq) ==
  IF Len(rq.verifiedIDs) < 1
  THEN requests' = [requests EXCEPT ![r] = Fail(rq, "Forbidden")]
  ELSE \E i \in 1..Len(rq.loadBalancer.applicationIDs) :
         requests' = [requests EXCEPT ![r] =
           EnterFetchApp(rq, rq.loadBalancer.applicationIDs[i], "pick")]

\* a choice without the sanity check: of an empty list it fetches undefined
ChooseApplicationUnchecked(r, rq) ==
  IF Len(rq.verifiedIDs) < 1
  THEN requests' = [requests EXCEPT ![r] = EnterFetchApp(rq, "", "pick")]
  ELSE \E i \in 1..Len(rq.verifiedIDs) :
         requests' = [requests EXCEPT ![r] =
                        EnterFetchApp(rq, rq.verifiedIDs[i], "pick")]

\* lines 87-91: refuse an empty list, else fetch one of its applications
ChooseApplication(r, rq) ==
  IF Len(rq.verifiedIDs) < 1
  THEN requests' = [requests EXCEPT ![r] = Fail(rq, "Forbidden")]
  ELSE \E i \in 1..Len(rq.verifiedIDs) :
         requests' = [requests EXCEPT ![r] =
                        EnterFetchApp(rq, rq.verifiedIDs[i], "pick")]

\* lines 72-76 and 84-86: read the verified ids from the cache; without
\* them start the loop over applicationIDs, which throws a TypeError when
\* there is no such array
GetApplicationIDs(r) ==
  LET rq == requests[r]
      cached == Get(ApplicationIDsKey(rq.loadBalancer.id))
      applicationIDs == rq.loadBalancer.applicationIDs
  IN /\ rq.pc = "fraGet"
     /\ IF Truthy(cached)
        THEN ChooseApplication(r, [rq EXCEPT !.verifiedIDs = JsonParse(cached)])
        ELSE requests' = [requests EXCEPT ![r] =
               IF ~rq.loadBalancer.hasApplicationIDs THEN Fail(rq, "TypeError")
               ELSE IF applicationIDs = <<>> THEN [rq EXCEPT !.pc = "fraSet"]
               ELSE EnterFetchApp([rq EXCEPT !.next = 1], applicationIDs[1],
                                  "verify")]
     /\ UNCHANGED <<redis, syncVars>>

\* line 82: cache the verified ids, then lines 87-91
SetApplicationIDs(r) ==
  LET rq == requests[r]
  IN /\ rq.pc = "fraSet"
     /\ redis' = (ApplicationIDsKey(rq.loadBalancer.id) :>
                    Entry(JsonStringify(rq.verifiedIDs), 60)) @@ redis
     /\ ChooseApplication(r, rq)
     /\ UNCHANGED syncVars

\* a fetchApp that asks the repository whatever the cache holds
GetApplicationUncached(r) ==
  LET rq == requests[r]
  IN /\ rq.pc = "faGet"
     /\ requests' = [requests EXCEPT ![r] =
          [rq EXCEPT !.fetchOps = Append(@, Op("get", rq.fetchId, <<>>, 0)),
                     !.pc = "faFind"]]
     /\ UNCHANGED <<redis, syncVars>>

\* lines 95-96 and 101: read the application from the cache under its bare
\* id; on a hit build an Applications from the cached text
GetApplication(r) ==
  LET rq == requests[r]
      cachedApplication == Get(RecordKey(rq.fetchId))
      got == [rq EXCEPT !.fetchOps = Append(@, Op("get", rq.fetchId, <<>>, 0))]
  IN /\ rq.pc = "faGet"
     /\ requests' = [requests EXCEPT ![r] =
          IF ~Truthy(cachedApplication)
          THEN [got EXCEPT !.pc = "faFind"]
          ELSE Resume([got EXCEPT !.hit = TRUE],
                      NewApplications(JsonParseObject(cachedApplication)))]
     /\ UNCHANGED <<redis, syncVars>>

\* line 97: applicationsRepository.findById
FindApplication(r) ==
  LET rq == requests[r]
  IN /\ rq.pc = "faFind"
     /\ requests' = [requests EXCEPT ![r] =
          [rq EXCEPT !.application = ApplicationsFindById(rq.fetchId),
                     !.fetchOps = Append(@, Op("findById", rq.fetchId, <<>>, 0)),
                     !.pc = "faSet"]]
     /\ UNCHANGED <<redis, syncVars>>

\* lines 98-99: cache what the repository answered, and return it
SetApplication(r) ==
  LET rq == requests[r]
      text == JsonStringifyObject(rq.application)
  IN /\ rq.pc = "faSet"
     /\ redis' = (RecordKey(rq.fetchId) :> Entry(text, 60)) @@ redis
     /\ requests' = [requests EXCEPT ![r] =
          Resume([rq EXCEPT !.fetchOps = Append(@, Op("set", rq.fetchId, text, 60))],
                 rq.application)]
     /\ UNCHANGED syncVars

\* lines 56 and 68: pocketRelayer.sendRelay(rawData, application)
SendRelay(r) ==
  LET rq == requests[r]
  IN /\ rq.pc = "send"
     /\ requests' = [requests EXCEPT ![r] =
          [rq EXCEPT !.sent = Append(@, [rawData |-> rq.rawData,
                                         application |-> rq.application]),
                     !.pc = "done"]]
     /\ UNCHANGED <<redis, syncVars>>

Serve(r) ==
  \/ StartLoadBalancerRelay(r)
  \/ StartApplicationRelay(r)
  \/ GetLoadBalancer(r)
  \/ FindLoadBalancer(r)
  \/ SetLoadBalancer(r)
  \/ GetApplicationIDs(r)
  \/ SetApplicationIDs(r)
  \/ GetApplication(r)
  \/ FindApplication(r)
  \/ SetApplication(r)
  \/ SendRelay(r)

\* requests served concurrently, the 60 s entries running out at any time
NextController ==
  \/ \E r \in Requests : Serve(r)
  \/ \E key \in DOMAIN redis : Expire(key)

Step(c) ==
  \/ Start(c)
  \/ GetCache(c)
  \/ GetLock(c)
  \/ SetLock(c)
  \/ Probe(c)
  \/ Evaluate(c)
  \/ Publish(c)
  \/ Challenge(c)
  \/ ChallengeResponse(c)
  \/ ReturnSynced(c)

Next ==
  \/ \E c \in Calls : Step(c)
  \/ \E key \in DOMAIN redis : Expire(key)

\* within the lifetime of the lock: no key runs out
NextBurst == \E c \in Calls : Step(c)

\* the first handler serves one request; the second serves the requests
\* that follow it.  Keys run out between calls.
NextSerial ==
  \/ pc[1] = "idle" /\ Start(1)
  \/ pc[1] # "idle" /\ Finished(1) /\ Start(2)
  \/ \E c \in Calls : GetCache(c)
  \/ \E c \in Calls : GetLock(c)
  \/ \E c \in Calls : SetLock(c)
  \/ \E c \in Calls : Probe(c)
  \/ \E c \in Calls : Evaluate(c)
  \/ \E c \in Calls : Publish(c)
  \/ \E c \in Calls : Challenge(c)
  \/ \E c \in Calls : ChallengeResponse(c)
  \/ \E c \in Calls : ReturnSynced(c)
  \/ \E key \in DOMAIN redis : Expire(key)

Spec == Init /\ [][Next]_vars

SpecSerial == InitSerial /\ [][NextSerial]_vars

SpecRollover == InitRollover /\ [][Next]_vars

SpecController == InitController /\ [][NextController]_vars

SpecBurst == InitBurst /\ [][NextBurst]_vars

\* ------------------------------------------------------------ properties
\* what the properties below talk about
Range(seq) == {seq[i] : i \in 1..Len(seq)}

Max(S) == CHOOSE x \in S : \A y \in S : y <= x

ProbesSent(c) == Cardinality({i \in 1..Len(relays[c]) : ~relays[c][i].consensusEnabled})

ChallengesSent(c) == Cardinality({i \in 1..Len(relays[c]) : relays[c][i].consensusEnabled})

ProbedKeys(c) == {relays[c][i].node : i \in {j \in 1..Len(relays[c]) : ~relays[c][j].consensusEnabled}}

LoggedKeys(c) == {nodeSyncLogs[c][i].node.publicKey : i \in 1..Len(nodeSyncLogs[c])}

Heights(c) == [i \in 1..Len(nodeSyncLogs[c]) |-> nodeSyncLogs[c][i].blockHeight]

AllNumeric(c) == \A i \in 1..Len(Heights(c)) : Heights(c)[i] # NaN

Highest(c) == Max(Range(Heights(c)))

\* the highest height once one report of the highest is set aside
SecondHighest(c) ==
  LET top == CHOOSE i \in 1..Len(Heights(c)) : Heights(c)[i] = Highest(c)
  IN Max({Heights(c)[i] : i \in (1..Len(Heights(c))) \ {top}})

\* the call is past lines 103-159 of a probing pass
Evaluated(c) ==
  /\ pc[c] \in {"publish", "challenge", "awaitChallenge", "challenged", "returned"}
  /\ relays[c] # <<>>

Publishing(c) == pc[c] \in {"publish", "challenge", "awaitChallenge", "challenged"}

\* the keys of the probes that came back as a RelayError: probed, not logged,
\* and not the probe whose payload made the call throw
ErrorKeys(c) ==
  (ProbedKeys(c) \ LoggedKeys(c))
    \ (IF pc[c] = "thrown" THEN {relays[c][Len(relays[c])].node} ELSE {})

\* C1: of the concurrent calls of a burst on one session key, all starting
\* with an empty cache and no lock, at most one sends probe relays.
C1_ProbeLockExclusive ==
  Cardinality({c \in Calls : ProbesSent(c) > 0}) <= 1

\* C2: a pass with at least 3 reported heights whose highest exceeds the
\* second highest by more than 1 returns the full node set and has no
\* verified list to publish.
C2_ConsensusGuard ==
  \A c \in Calls :
    (/\ Evaluated(c)
     /\ Len(nodeSyncLogs[c]) >= 3
     /\ AllNumeric(c)
     /\ Highest(c) > SecondHighest(c) + 1)
    => (/\ pc[c] = "returned"
        /\ result[c] = nodes[c]
        /\ syncedNodesList[c] = <<>>)

\* C3: a pass that gets to publish, with valid heights on which the two
\* highest agree within 1, publishes exactly the keys of the probed nodes
\* whose height plus syncAllowance reaches the highest reported height.
C3_Admission ==
  \A c \in Calls :
    (/\ Publishing(c)
     /\ AllNumeric(c)
     /\ Highest(c) # 0
     /\ Highest(c) <= SecondHighest(c) + 1)
    => /\ Range(syncedNodesList[c]) =
            {nodeSyncLogs[c][i].node.publicKey :
               i \in {j \in 1..Len(nodeSyncLogs[c]) :
                        Heights(c)[j] + syncAllowance >= Highest(c)}}
       /\ Range(syncedNodes[c]) =
            {nodeSyncLogs[c][i].node :
               i \in {j \in 1..Len(nodeSyncLogs[c]) :
                        Heights(c)[j] + syncAllowance >= Highest(c)}}

\* C4: a call that has sent probes and is over, fewer than 3 of whose probes
\* came back as a RelayResponse, has returned its node set unchanged and
\* built no verified list.
C4_MinimumProbes ==
  \A c \in Calls :
    (/\ pc[c] \in {"returned", "thrown"}
     /\ ProbesSent(c) > 0
     /\ Cardinality(ProbedKeys(c) \ ErrorKeys(c)) < 3)
    => (/\ pc[c] = "returned"
        /\ result[c] = nodes[c]
        /\ syncedNodesList[c] = <<>>)

\* C5: a call that reads a non-empty verified list returns, in its next step,
\* exactly its nodes whose public key is in the list, having sent no relay,
\* recorded no metric and left the cache backend (list and lock) as it was.
C5_CacheHit ==
  [][\A c \in Calls :
       (pc[c] = "getCache" /\ pc'[c] # "getCache" /\ Truthy(Get(Key(c))))
       => (/\ pc'[c] = "returned"
           /\ Range(result'[c]) =
                {n \in Range(nodes[c]) : n.publicKey \in Range(JsonParse(Get(Key(c))))}
           /\ Len(result'[c]) = Cardinality(Range(result'[c]))
           /\ relays'[c] = <<>>
           /\ metrics'[c] = <<>>
           /\ redis' = redis)]_vars

\* a hit that filtered: the call returned without a relay, and not all its nodes
C5_Witness ==
  \E c \in Calls :
    /\ pc[c] = "returned"
    /\ relays[c] = <<>>
    /\ Truthy(Get(Key(c)))
    /\ result[c] # <<>>
    /\ Len(result[c]) < Len(nodes[c])

\* C6: a call that found no verified list and reads a set lock returns, in
\* its next step, its node set unchanged, having sent no relay and left the
\* lock and the cache as they were.
C6_SoftFailOpen ==
  [][\A c \in Calls :
       (pc[c] = "getLock" /\ pc'[c] # "getLock" /\ Truthy(Get(LockKey(Key(c)))))
       => (/\ pc'[c] = "returned"
           /\ result'[c] = nodes[c]
           /\ relays'[c] = <<>>
           /\ redis' = redis)]_vars

\* the lock of an earlier pass turned the call away: no list, no relay sent
C6_Witness ==
  \E c \in Calls :
    /\ pc[c] = "returned"
    /\ relays[c] = <<>>
    /\ ~Truthy(Get(Key(c)))
    /\ Truthy(Get(LockKey(Key(c))))
    /\ result[c] = nodes[c]
    /\ nodes[c] # <<>>

\* C7: whatever the probes answer, consensusFilter never ends by throwing.
C7_NeverRaises ==
  \A c \in Calls : pc[c] # "thrown"

MetricKeys(c) == {metrics[c][i].serviceNode : i \in 1..Len(metrics[c])}

\* C8 as stated: a call that has returned has recorded as many metrics as it
\* has sent probes.
C8_OneMetricPerProbe ==
  \A c \in Calls : pc[c] = "returned" => Len(metrics[c]) = ProbesSent(c)

\* C8 as amended: a probe yields at most one synccheck record: one, at once,
\* when it comes back as a RelayError; one, at admission, when its node is
\* found behind; none when its node is admitted or the pass fails open.  So
\* the records of a pass never outnumber its probes.
C8_AtMostOneMetricPerProbe ==
  \A c \in Calls :
    /\ \A i \in 1..Len(metrics[c]) : metrics[c][i].method = "synccheck"
    /\ Len(metrics[c]) = Cardinality(MetricKeys(c))
    /\ MetricKeys(c) \subseteq ProbedKeys(c)
    /\ Len(metrics[c]) <= ProbesSent(c)
    /\ ErrorKeys(c) \subseteq MetricKeys(c)
    /\ IF relays[c] # <<>> /\ syncedNodesList[c] # <<>>
       THEN MetricKeys(c) = ErrorKeys(c) \cup (LoggedKeys(c) \ Range(syncedNodesList[c]))
       ELSE MetricKeys(c) = ErrorKeys(c)

\* a published pass with a failed probe, a node behind and fewer records than probes
C8_Witness ==
  \E c \in Calls :
    /\ pc[c] = "returned"
    /\ ProbesSent(c) > 0
    /\ syncedNodesList[c] # <<>>
    /\ \E i, j \in 1..Len(metrics[c]) :
         metrics[c][i].error = "OUT OF SYNC" /\ metrics[c][j].error # "OUT OF SYNC"
    /\ Len(metrics[c]) < ProbesSent(c)

\* C9: every probe that came back as a RelayError has exactly one failure
\* record for its node (result 500, method synccheck, not delivered, no
\* fallback), and when the pass fails open that node is in the returned set.
C9_ProbeFailureMetric ==
  \A c \in Calls : \A pk \in ErrorKeys(c) :
    /\ Cardinality({i \in 1..Len(metrics[c]) : metrics[c][i].serviceNode = pk}) = 1
    /\ \A i \in 1..Len(metrics[c]) :
         metrics[c][i].serviceNode = pk
         => /\ metrics[c][i].result = 500
            /\ metrics[c][i].method = "synccheck"
            /\ metrics[c][i].delivered = FALSE
            /\ metrics[c][i].fallback = FALSE
    /\ (pc[c] = "returned" /\ syncedNodesList[c] = <<>>)
       => \E i \in 1..Len(result[c]) : result[c][i].publicKey = pk

\* a pass that failed open although one of its probes had failed
C9_Witness ==
  \E c \in Calls :
    /\ pc[c] = "returned"
    /\ syncedNodesList[c] = <<>>
    /\ ErrorKeys(c) # {}
    /\ result[c] = nodes[c]

\* C10: a pass that publishes fewer than 5 nodes fires exactly one consensus
\* relay (consensusNodeCount 5, acceptDisputedResponses false), and while
\* that relay is still unanswered the call is free to return its in-sync set.
C10_FireAndForget ==
  \A c \in Calls :
    /\ (pc[c] \in {"awaitChallenge", "challenged"}
        \/ (pc[c] = "returned" /\ ProbesSent(c) > 0 /\ syncedNodesList[c] # <<>>
              /\ Len(syncedNodes[c]) < 5))
       => /\ ChallengesSent(c) = 1
          /\ \A i \in 1..Len(relays[c]) :
               relays[c][i].consensusEnabled
               => /\ relays[c][i].configuration.consensusNodeCount = 5
                  /\ relays[c][i].configuration.acceptDisputedResponses = FALSE
    /\ pc[c] = "awaitChallenge" => ENABLED ReturnSynced(c)

\* the step taken is a step of call c
StepOf(c) ==
  <<pc[c], relays[c], result[c]>> # <<pc'[c], relays'[c], result'[c]>>

HoldsLock(key) ==
  /\ LockKey(key) \in DOMAIN redis
  /\ redis[LockKey(key)] = Entry(<<"true">>, 60)

\* C11: a lock whose holder stopped before publishing does not stay for ever.
\* Every lock in redis carries the 60 s lifetime, so it runs out once no pass
\* is running; the next call that finds neither the verified list nor the
\* lock goes on to set the lock again, with the same lifetime, and its next
\* step relays a sync check to the first node of the session.
C11_LockExpiryReElection ==
  [][/\ \A k \in DOMAIN redis' : redis'[k].EX > 0
     /\ \A c \in Calls :
          /\ (pc[c] = "getLock" /\ StepOf(c) /\ ~Truthy(Get(LockKey(Key(c)))))
               => pc'[c] = "setLock"
          /\ (pc[c] = "setLock" /\ StepOf(c))
               => /\ pc'[c] = "probe"
                  /\ relays'[c] = <<>>
                  /\ LockKey(Key(c)) \in DOMAIN redis'
                  /\ redis'[LockKey(Key(c))] = Entry(<<"true">>, 60)
          /\ (pc[c] = "probe" /\ relays[c] = <<>> /\ StepOf(c))
               => relays'[c] = <<ProbeRelay(nodes[c][1])>>]_vars

\* the first call stopped in its probe loop holding the lock; the lock ran
\* out, and the call after it holds the lock again and is probing
C11_Witness ==
  /\ pc[1] = "thrown"
  /\ pc[2] = "probe"
  /\ relays[2] # <<>>
  /\ HoldsLock(Key(2))

PublicKeysOf(nodeSet) == {nodeSet[i].publicKey : i \in 1..Len(nodeSet)}

\* the verified list cached for a node set, <<>> when there is none
CachedList(nodeSet) ==
  LET cached == Get(SyncedNodesKey(Blockchain, nodeSet))
  IN IF Truthy(cached) THEN JsonParse(cached) ELSE <<>>

\* C12: whatever list of public keys is cached under the key of a node set
\* holds public keys of that node set only, and every key in redis that is
\* not a lock is the key of one of the node sets handed out.
C12_CachedSubsetOfSession ==
  /\ \A s \in sessions : Range(CachedList(s)) \subseteq PublicKeysOf(s)
  /\ \A k \in DOMAIN redis :
       \/ \E s \in sessions : k = SyncedNodesKey(Blockchain, s)
       \/ \E s \in sessions : k = LockKey(SyncedNodesKey(Blockchain, s))

\* both the old and the next session have a verified list cached, and the
\* two lists differ
C12_Witness ==
  \E s, t \in sessions :
    /\ CachedList(s) # <<>>
    /\ CachedList(t) # <<>>
    /\ Range(CachedList(s)) # Range(CachedList(t))

\* every order in which the dispatcher could hand out the node set
Orders(nodeSet) ==
  {[i \in 1..Len(nodeSet) |-> nodeSet[f[i]]] :
     f \in Permutations(1..Len(nodeSet))}

\* the nodes of the network that are not in the node set
OtherNodes(nodeSet) ==
  {Node(i) : i \in 1..Len(PublicKeys)} \ Range(nodeSet)

\* C17: the key a call computes from its nodes is the key of every other
\* order of the same nodes, and is not the key of those nodes with one more
\* node of the network added, in whatever order.
C17_FingerprintDeterminism ==
  \A c \in Calls : pc[c] = "getCache" =>
    /\ \A input \in Orders(nodes[c]) :
         SyncedNodesKey(Blockchain, input) = Key(c)
    /\ \A n \in OtherNodes(nodes[c]) :
         /\ SyncedNodesKey(Blockchain, Append(nodes[c], n)) # Key(c)
         /\ SyncedNodesKey(Blockchain, <<n>> \o nodes[c]) # Key(c)

\* a call has computed the key of a session of at least three nodes, and it
\* is the key of that session handed out in reverse order
C17_Witness ==
  \E c \in Calls : \E s \in sessions :
    /\ pc[c] = "getCache"
    /\ Len(s) >= 3
    /\ Reverse(s) # nodes[c]
    /\ Key(c) = SyncedNodesKey(Blockchain, Reverse(s))

\* C18: a pass that ends without publishing (fewer than three answers, a
\* top height of 0 or NaN, or the consensus guard) returns the full node set
\* and leaves its lock in redis, with nothing cached.  No step of a call
\* takes a key out of redis, so the lock stays until it runs out.  A call
\* that finds the lock returns the full node set, relays nothing and writes
\* nothing; a call that finds no lock goes on to set it and probe.
C18_RetryCadence ==
  [][\A c \in Calls : StepOf(c) =>
       /\ DOMAIN redis \subseteq DOMAIN redis'
       /\ (pc[c] = "probe" /\ pc'[c] = "returned")
            => /\ result'[c] = nodes[c]
               /\ HoldsLock(Key(c))
               /\ redis' = redis
       /\ pc[c] = "getLock"
            => IF HoldsLock(Key(c))
               THEN /\ pc'[c] = "returned"
                    /\ result'[c] = nodes[c]
                    /\ relays'[c] = <<>>
                    /\ redis' = redis
               ELSE pc'[c] = "setLock"]_vars

\* the first call probed every node and ended without publishing; the call
\* after it found the lock and returned the full node set without probing
C18_Witness ==
  /\ pc[1] = "returned"
  /\ Len(relays[1]) = Len(nodes[1])
  /\ syncedNodesList[1] = <<>>
  /\ pc[2] = "returned"
  /\ relays[2] = <<>>
  /\ result[2] = nodes[2]
  /\ HoldsLock(Key(2))
  /\ CachedList(nodes[2]) = <<>>

\* C19: with a syncAllowance of 0 or more, every verified list in the cache
\* names at least one node of the node set it is cached for, so a call that
\* hits the cache with that node set never returns an empty array; nor does
\* any other call.
C19_CachedListNonEmpty ==
  /\ syncAllowance >= 0
  /\ \A s \in sessions :
       Truthy(Get(SyncedNodesKey(Blockchain, s)))
         => Range(CachedList(s)) \cap PublicKeysOf(s) # {}
  /\ \A c \in Calls : pc[c] = "publish" => syncedNodesList[c] # <<>>
  /\ \A c \in Calls : pc[c] = "returned" => result[c] # <<>>

\* a call hit the cache and returned some, not all, of its nodes
C19_Witness ==
  \E c \in Calls :
    /\ pc[c] = "returned"
    /\ relays[c] = <<>>
    /\ syncedNodesList[c] = CachedList(nodes[c])
    /\ result[c] # <<>>
    /\ Len(result[c]) < Len(nodes[c])

\* C13: a fetchApp(id) that finds an entry under id in the cache does the
\* one cache read and nothing else: no findById, no cache write, and it
\* returns the Applications built from the entry.  A fetchApp(id) that
\* finds none does, in this order, the cache read, one
\* applicationsRepository.findById(id) and one cache write of the JSON of
\* the record findById answered, under id, with EX 60, and returns that
\* record.
C13_FetchAppCacheEquivalence ==
  [][\A r \in Requests :
       LET rq == requests[r]
           after == requests'[r]
           id == rq.fetchId
           cached == Get(RecordKey(id))
           record == ApplicationsFindById(id)
           text == JsonStringifyObject(record)
       IN /\ (rq.pc = "faGet" /\ after # rq)
               => IF Truthy(cached)
                  THEN /\ redis' = redis
                       /\ after.fetched =
                            [id |-> id, hit |-> TRUE,
                             ops |-> <<Op("get", id, <<>>, 0)>>,
                             application |->
                               NewApplications(JsonParseObject(cached))]
                  ELSE /\ redis' = redis
                       /\ after.fetched = rq.fetched
                       /\ after.pc = "faFind"
          /\ (rq.pc = "faSet" /\ after # rq)
               => /\ after.fetched =
                       [id |-> id, hit |-> FALSE,
                        ops |-> <<Op("get", id, <<>>, 0),
                                  Op("findById", id, <<>>, 0),
                                  Op("set", id, text, 60)>>,
                        application |-> record]
                  /\ redis' = (RecordKey(id) :> Entry(text, 60)) @@ redis]_vars

\* for one id, one request was served from the cache and the other from the
\* repository
C13_Witness ==
  \E r, q \in Requests :
    /\ requests[r].fetched.hit
    /\ Len(requests[r].fetched.ops) = 1
    /\ ~requests[q].fetched.hit
    /\ Len(requests[q].fetched.ops) = 3
    /\ requests[q].fetched.id = requests[r].fetched.id

\* the request is about to run the sanity check of line 88: it has either
\* read a list of verified ids from the cache or is writing the one it made
Deciding(rq) ==
  \/ rq.pc = "fraSet"
  \/ rq.pc = "fraGet" /\ Truthy(Get(ApplicationIDsKey(rq.loadBalancer.id)))

\* the list of verified ids the sanity check looks at
DecidedList(rq) ==
  IF rq.pc = "fraSet" THEN rq.verifiedIDs
  ELSE JsonParse(Get(ApplicationIDsKey(rq.loadBalancer.id)))

\* C14: a loadBalancerRelay whose list of verified ids is empty, whether it
\* verified none of the applicationIDs itself or read an empty list from the
\* cache, fails with Forbidden; a failed request has not invoked sendRelay
\* and does nothing more.
C14_EmptyLoadBalancer ==
  [][\A r \in Requests :
       LET rq == requests[r]
           after == requests'[r]
       IN /\ (Deciding(rq) /\ after # rq /\ DecidedList(rq) = <<>>)
               => /\ after.pc = "failed"
                  /\ after.error = "Forbidden"
          /\ rq.pc = "failed" => rq.sent = <<>>
          /\ (rq.pc = "failed" /\ after # rq)
               => after.pc \in {"lbGet", "faGet"} /\ after.sent = <<>>]_vars

\* a request for a load balancer that names applications failed with
\* Forbidden on an empty list it read from the cache, without a relay
C14_Witness ==
  \E r \in Requests :
    /\ requests[r].pc = "failed"
    /\ requests[r].error = "Forbidden"
    /\ requests[r].loadBalancer.applicationIDs # <<>>
    /\ requests[r].next = 0
    /\ requests[r].sent = <<>>

Held(id) == \E a \in ApplicationRecords : a.id = id

\* the applicationIDs of the load balancer that the repository holds
Existing(loadBalancer) == SelectSeq(loadBalancer.applicationIDs, Held)

\* the request is past the sanity check of line 88
Decided(rq) ==
  \/ rq.pc \in {"send", "done"}
  \/ rq.pc \in {"faGet", "faFind", "faSet"} /\ rq.site = "pick"

\* C15: a request for a load balancer that names some applications the
\* repository holds and some it does not never fails; the ids it has
\* verified are ids the repository holds, the list it caches and goes on
\* with is the list of the applicationIDs the repository holds, in their
\* order, and what it relays with is the record of one of them.
C15_AbsentApplicationDropped ==
  \A r \in Requests :
    LET rq == requests[r]
        loadBalancer == rq.loadBalancer
        cached == Get(ApplicationIDsKey(loadBalancer.id))
    IN (/\ rq.path = "lb"
        /\ ~loadBalancer.isNull
        /\ Existing(loadBalancer) # <<>>
        /\ Existing(loadBalancer) # loadBalancer.applicationIDs)
       => /\ rq.pc # "failed"
          /\ \A i \in 1..Len(rq.verifiedIDs) : Held(rq.verifiedIDs[i])
          /\ (rq.pc = "fraSet" \/ Decided(rq))
               => rq.verifiedIDs = Existing(loadBalancer)
          /\ Truthy(cached) => JsonParse(cached) = Existing(loadBalancer)
          /\ rq.pc \in {"send", "done"}
               => /\ rq.application \in ApplicationRecords
                  /\ rq.application.id \in Range(rq.verifiedIDs)
          /\ rq.pc = "done"
               => rq.sent = <<[rawData |-> rq.rawData,
                               application |-> rq.application]>>

\* a request verified the applications of such a load balancer itself,
\* dropped one, and relayed with one of the others
C15_Witness ==
  \E r \in Requests :
    LET rq == requests[r]
    IN /\ rq.pc = "done"
       /\ rq.path = "lb"
       /\ rq.next = Len(rq.loadBalancer.applicationIDs) + 1
       /\ Len(rq.verifiedIDs) = 2
       /\ Len(rq.loadBalancer.applicationIDs) = 3
       /\ Len(rq.sent) = 1

\* C16: a loadBalancerRelay that has not finished has relayed nothing; one
\* that finished without failing went on with a list of verified ids taken
\* from the applicationIDs of its load balancer, fetched the application of
\* one id of that list, and invoked sendRelay once, with that application
\* and the rawData it was given.  An applicationRelay for that application's
\* id that finished passed the same application to sendRelay.
C16_LoadBalancerResolution ==
  \A r \in Requests :
    LET rq == requests[r]
    IN rq.path = "lb" =>
         /\ rq.pc # "done" => rq.sent = <<>>
         /\ rq.pc = "done" =>
              /\ Range(rq.verifiedIDs) \subseteq
                   Range(rq.loadBalancer.applicationIDs)
              /\ rq.application.id \in Range(rq.verifiedIDs)
              /\ rq.application = rq.fetched.application
              /\ rq.fetched.id = rq.application.id
              /\ rq.sent = <<[rawData |-> RawData(r),
                              application |-> rq.application]>>
              /\ \A q \in Requests :
                   (/\ requests[q].path = "app"
                    /\ requests[q].pc = "done"
                    /\ requests[q].id = rq.application.id)
                   => requests[q].sent =
                        <<[rawData |-> RawData(q),
                           application |-> rq.application]>>

\* a loadBalancerRelay and an applicationRelay have relayed with the same
\* application
C16_Witness ==
  \E r, q \in Requests :
    /\ requests[r].path = "lb"
    /\ requests[r].pc = "done"
    /\ requests[q].path = "app"
    /\ requests[q].pc = "done"
    /\ requests[q].id = requests[r].application.id
    /\ Len(requests[r].sent) = 1

\* what fetchApp returns on a hit when the entry under id is the one fetchApp
\* wrote from the answer of applicationsRepository.findById(id)
CachedApplicationOf(id) ==
  NewApplications(JsonParseObject(JsonStringifyObject(ApplicationsFindById(id))))

\* C20: whatever fetchApp(id) returns from the cache is what fetchApp cached
\* from applicationsRepository.findById(id), and what fetchApp returns is
\* never a load-balancer record.
C20_CacheNamespaceIsolation ==
  \A r \in Requests :
    LET fetched == requests[r].fetched
    IN /\ fetched.hit => fetched.application = CachedApplicationOf(fetched.id)
       /\ fetched.application \notin LoadBalancerRecords
       /\ \A i \in 1..Len(requests[r].sent) :
            requests[r].sent[i].application \notin LoadBalancerRecords
====
